---- MODULE Spec2Model ----
(***************************************************************************)
(* Model of AutoTypeSelectDialog (keepassxc, src/autotype): the dialog     *)
(* that lets the user pick one (entry, sequence) match.  Handlers are      *)
(* record transformers over the dialog state; every action applies one     *)
(* whole handler, the slots it calls synchronously included.               *)
(***************************************************************************)
EXTENDS Integers, Sequences, FiniteSets, TLC

\* ------------------------------------------------------------------ bounds
MaxMatches == 2        \* longest initial match list handed to setMatches
MaxBurst == 2          \* text changes counted between two timer fires
MaxCloseEvents == 1    \* close events delivered to one dialog
TickMs == 100          \* granularity of the modelled clock, in ms

\* --------------------------------------------------------- program constants
SearchInterval == 300  \* m_searchTimer.setInterval(300)

\* ------------------------------------------------------------ entry data
NoEntry == "null"
EntryIds == {"e1", "e2", "e3"}

Title == [e1 |-> <<"a">>, e2 |-> <<"a", "b">>, e3 |-> <<"b">>]
Username == [e1 |-> "bob", e2 |-> "", e3 |-> ""]
Password == [e1 |-> "", e2 |-> "pw2", e3 |-> ""]
HasTotp == [e1 |-> FALSE, e2 |-> TRUE, e3 |-> FALSE]
Totp == [e1 |-> "", e2 |-> "123456", e3 |-> ""]
EffectiveSequence == [e1 |-> "{USERNAME}{ENTER}", e2 |-> "", e3 |-> ""]
Associations == [e1 |-> <<"{USERNAME}{ENTER}", "{TOTP}">>,
                 e2 |-> <<"", "{PASSWORD}", "{PASSWORD}">>,
                 e3 |-> <<"">>]

\* an entry belongs to one store; a caller may list a store twice
Db1 == <<"e1">>
Db2 == <<"e2", "e3">>
DbLists == {<<Db1, Db2>>, <<Db2, Db2>>}

Texts == {<< >>, <<"a">>, <<"b">>}

CandidateMatches ==
    {<<"e1", "{USERNAME}{ENTER}">>, <<"e2", "{PASSWORD}">>}

\* the sequences of at most n distinct elements of S
RECURSIVE SeqsUpTo(_, _)
SeqsUpTo(S, n) ==
    IF n = 0 THEN {<< >>}
    ELSE LET shorter == SeqsUpTo(S, n - 1)
         IN shorter \cup {Append(q, x) : q \in shorter, x \in S}

Range(q) == {q[i] : i \in 1..Len(q)}

\* a caller's candidate set holds no match twice
InitialMatchLists ==
    {q \in SeqsUpTo(CandidateMatches, MaxMatches) : Cardinality(Range(q)) = Len(q)}

NullMatch == <<NoEntry, "">>

\* the strings a dereference of a null entry may yield when it does not crash
GarbageText == "<garbage>"

VARIABLES
    phase,          \* "constructed" | "open" | "closed" | "destroyed" | "crashed"
    result,         \* QDialog result: "none" | "Accepted" | "Rejected"
    m_accepted,
    m_matches,
    m_dbs,
    filterChecked,  \* m_ui->filterRadio->isChecked()
    searchChecked,  \* m_ui->searchRadio->isChecked()
    searchText,     \* m_ui->search->text()
    viewList,       \* the list last given to the view by setMatchList
    displayed,      \* the rows the view shows
    sel,            \* current row of the view, 0 = none
    timerActive,    \* m_searchTimer.isActive()
    timerLeft,      \* ms until m_searchTimer times out
    buttonEnabled,  \* m_ui->action->isEnabled()
    actions,        \* enabled flags of the six menu actions
    menuOpen,       \* m_actionMenu is popped up
    clipboard,
    nActivated,     \* emissions of matchActivated
    delivered,      \* argument of the last matchActivated
    nRejected,      \* emissions of rejected()
    nClose,         \* close events delivered
    burst,          \* text changes since the last timer fire
    sinceChange,    \* ticks since the last text change (capped)
    lastDispatch,   \* what the last performSearch did: mode, text read, stores queried
    ev              \* the last event handled

vars == <<phase, result, m_accepted, m_matches, m_dbs, filterChecked, searchChecked,
          searchText, viewList, displayed, sel, timerActive, timerLeft, buttonEnabled,
          actions, menuOpen, clipboard, nActivated, delivered, nRejected, nClose,
          burst, sinceChange, lastDispatch, ev>>

St ==
    [phase |-> phase, result |-> result, m_accepted |-> m_accepted,
     m_matches |-> m_matches, m_dbs |-> m_dbs, filterChecked |-> filterChecked,
     searchChecked |-> searchChecked, searchText |-> searchText, viewList |-> viewList,
     displayed |-> displayed, sel |-> sel, timerActive |-> timerActive,
     timerLeft |-> timerLeft, buttonEnabled |-> buttonEnabled, actions |-> actions,
     menuOpen |-> menuOpen, clipboard |-> clipboard, nActivated |-> nActivated,
     delivered |-> delivered, nRejected |-> nRejected, nClose |-> nClose,
     burst |-> burst, sinceChange |-> sinceChange, lastDispatch |-> lastDispatch,
     ev |-> ev]

Apply(s) ==
    /\ phase' = s.phase
    /\ result' = s.result
    /\ m_accepted' = s.m_accepted
    /\ m_matches' = s.m_matches
    /\ m_dbs' = s.m_dbs
    /\ filterChecked' = s.filterChecked
    /\ searchChecked' = s.searchChecked
    /\ searchText' = s.searchText
    /\ viewList' = s.viewList
    /\ displayed' = s.displayed
    /\ sel' = s.sel
    /\ timerActive' = s.timerActive
    /\ timerLeft' = s.timerLeft
    /\ buttonEnabled' = s.buttonEnabled
    /\ actions' = s.actions
    /\ menuOpen' = s.menuOpen
    /\ clipboard' = s.clipboard
    /\ nActivated' = s.nActivated
    /\ delivered' = s.delivered
    /\ nRejected' = s.nRejected
    /\ nClose' = s.nClose
    /\ burst' = s.burst
    /\ sinceChange' = s.sinceChange
    /\ lastDispatch' = s.lastDispatch
    /\ ev' = s.ev

\* ------------------------------------------------------------ collaborators
Min(a, b) == IF a < b THEN a ELSE b

IsSubstring(t, s) ==
    \E i \in 0..(Len(s) - Len(t)) : SubSeq(s, i + 1, i + Len(t)) = t

\* the view's filter predicate: the text occurs in the entry's title
MatchesFilter(m, text) == IsSubstring(text, Title[m[1]])

\* EntrySearcher::search: the entries of the store whose title contains the text
EntrySearch(text, db) == SelectSeq(db, LAMBDA e : IsSubstring(text, Title[e]))

FirstRow(list) == IF Len(list) = 0 THEN 0 ELSE 1

CurrentMatch(s) == IF s.sel = 0 THEN NullMatch ELSE s.displayed[s.sel]

\* mutant: the copy actions all take the username flag
UpdateActionMenu_CopyUsesUsername(s, match) ==
    IF match[1] = NoEntry
    THEN [s EXCEPT !.buttonEnabled = FALSE]
    ELSE LET hasUsername == Username[match[1]] # ""
             hasPassword == Password[match[1]] # ""
             hasTotp == HasTotp[match[1]]
         IN [s EXCEPT !.buttonEnabled = TRUE,
                      !.actions = <<hasUsername, hasPassword, hasTotp,
                                    hasUsername, hasUsername, hasUsername>>]

UpdateActionMenu(s, match) ==
    IF match[1] = NoEntry
    THEN [s EXCEPT !.buttonEnabled = FALSE]
    ELSE LET hasUsername == Username[match[1]] # ""
             hasPassword == Password[match[1]] # ""
             hasTotp == HasTotp[match[1]]
         IN [s EXCEPT !.buttonEnabled = TRUE,
                      !.actions = <<hasUsername, hasPassword, hasTotp,
                                    hasUsername, hasPassword, hasTotp>>]

\* mutant: currentMatchChanged is not connected to updateActionMenu
ViewNotify_Disconnected(s) == s

\* connect(view, currentMatchChanged, this, updateActionMenu)
ViewNotify(s) == UpdateActionMenu(s, CurrentMatch(s))

ViewSetCurrent(s, row) == ViewNotify([s EXCEPT !.sel = row])

ViewSetMatchList(s, list) ==
    ViewNotify([s EXCEPT !.viewList = list, !.displayed = list, !.sel = FirstRow(list)])

ViewFilterList(s, text) ==
    LET rows == SelectSeq(s.viewList, LAMBDA m : MatchesFilter(m, text))
    IN ViewNotify([s EXCEPT !.displayed = rows, !.sel = FirstRow(rows)])

\* QDialog::done: hides the dialog, stores the result, emits rejected() for Rejected
QDialogDone(s, r) ==
    [s EXCEPT !.phase = "closed", !.result = r, !.menuOpen = FALSE,
              !.nRejected = IF r = "Rejected" THEN @ + 1 ELSE @]

Reject(s) == QDialogDone(s, "Rejected")

\* mutant: start() only when the timer is not already running
TimerStart_NoRestart(s) ==
    IF s.timerActive
    THEN [s EXCEPT !.burst = @ + 1, !.sinceChange = 0]
    ELSE [s EXCEPT !.timerActive = TRUE, !.timerLeft = SearchInterval,
                   !.burst = @ + 1, !.sinceChange = 0]

\* QTimer::start on the single-shot timer: (re)arms the full interval
TimerStart(s) ==
    [s EXCEPT !.timerActive = TRUE, !.timerLeft = SearchInterval,
              !.burst = @ + 1, !.sinceChange = 0]

\* QLineEdit text change; textChanged is connected to m_searchTimer.start()
SearchSetText(s, t) ==
    IF t = s.searchText THEN s ELSE TimerStart([s EXCEPT !.searchText = t])

\* ------------------------------------------------------------ performSearch
\* mutant: the associations are appended without the check against the set
RECURSIVE AssocMatches_NoDedup(_, _, _)
AssocMatches_NoDedup(entry, assocs, sequences) ==
    IF assocs = << >> THEN << >>
    ELSE IF Head(assocs) # ""
         THEN <<<<entry, Head(assocs)>>>> \o AssocMatches_NoDedup(entry, Tail(assocs), sequences)
         ELSE AssocMatches_NoDedup(entry, Tail(assocs), sequences)

RECURSIVE AssocMatches(_, _, _)
AssocMatches(entry, assocs, sequences) ==
    IF assocs = << >> THEN << >>
    ELSE LET seq == Head(assocs)
         IN IF seq \notin sequences /\ seq # ""
            THEN <<<<entry, seq>>>> \o AssocMatches(entry, Tail(assocs), sequences \cup {seq})
            ELSE AssocMatches(entry, Tail(assocs), sequences)

EntryMatches(entry) ==
    LET defSequence == EffectiveSequence[entry]
    IN IF defSequence # ""
       THEN <<<<entry, defSequence>>>> \o AssocMatches(entry, Associations[entry], {defSequence})
       ELSE AssocMatches(entry, Associations[entry], {})

RECURSIVE FoundMatches(_)
FoundMatches(found) ==
    IF found = << >> THEN << >>
    ELSE EntryMatches(Head(found)) \o FoundMatches(Tail(found))

RECURSIVE Collect(_, _)
Collect(text, dbs) ==
    IF dbs = << >> THEN << >>
    ELSE FoundMatches(EntrySearch(text, Head(dbs))) \o Collect(text, Tail(dbs))

\* records the branch performSearch takes and the text it reads
Dispatched(s, mode, queried) ==
    [s EXCEPT !.lastDispatch = [mode |-> mode, text |-> s.searchText, queried |-> queried]]

\* mutant: the empty-text check of the Search branch is missing
PerformSearch_NoEmptyCheck(s) ==
    IF s.filterChecked
    THEN ViewFilterList(Dispatched(s, "Filter", FALSE), s.searchText)
    ELSE ViewSetMatchList(Dispatched(s, "Search", TRUE), Collect(s.searchText, s.m_dbs))

\* mutant: the mode is ignored and every dispatch collects from the stores
PerformSearch_IgnoreMode(s) ==
    IF s.searchText = << >>
    THEN ViewSetMatchList(Dispatched(s, "Search", FALSE), << >>)
    ELSE ViewSetMatchList(Dispatched(s, "Search", TRUE), Collect(s.searchText, s.m_dbs))

PerformSearch(s) ==
    IF s.filterChecked
    THEN ViewFilterList(Dispatched(s, "Filter", FALSE), s.searchText)
    ELSE IF s.searchText = << >>
         THEN ViewSetMatchList(Dispatched(s, "Search", FALSE), << >>)
         ELSE ViewSetMatchList(Dispatched(s, "Search", TRUE), Collect(s.searchText, s.m_dbs))

\* timeout() of the single-shot timer: the timer stops, then the slot runs
TimerFire(s) ==
    PerformSearch([s EXCEPT !.timerActive = FALSE, !.burst = 0, !.sinceChange = 0])

\* ------------------------------------------------------------ radio buttons
\* mutant: the view is not reset to the original match list
OnFilterToggled_NoReset(s) == PerformSearch(s)

\* toggled(true) of filterRadio
OnFilterToggled(s) == PerformSearch(ViewSetMatchList(s, s.m_matches))

\* mutant: the toggle waits for the timer instead of searching
OnSearchToggled_NoDispatch(s) == s

\* toggled(true) of searchRadio
OnSearchToggled(s) == PerformSearch(s)

\* QAbstractButton::setChecked(true) in an auto-exclusive group: the other button is
\* unchecked (its toggled(false) handler does nothing) before toggled(true) is emitted
FilterRadioSetChecked(s) ==
    IF s.filterChecked THEN s
    ELSE OnFilterToggled([s EXCEPT !.filterChecked = TRUE, !.searchChecked = FALSE])

SearchRadioSetChecked(s) ==
    IF s.searchChecked THEN s
    ELSE OnSearchToggled([s EXCEPT !.searchChecked = TRUE, !.filterChecked = FALSE])

\* ------------------------------------------------------------ handlers
\* mutant: the Filter radio is checked whatever the match list
SetMatchesHandler_AlwaysFilter(s, matches, dbs) ==
    FilterRadioSetChecked(ViewSetMatchList([s EXCEPT !.m_matches = matches, !.m_dbs = dbs],
                                           matches))

SetMatchesHandler(s, matches, dbs) ==
    LET s1 == ViewSetMatchList([s EXCEPT !.m_matches = matches, !.m_dbs = dbs], matches)
    IN IF matches = << >> THEN SearchRadioSetChecked(s1) ELSE FilterRadioSetChecked(s1)

\* mutant: accept() is not called, the dialog stays open
SubmitAutoTypeMatch_NoAccept(s, match) ==
    [s EXCEPT !.m_accepted = TRUE, !.nActivated = @ + 1, !.delivered = match]

SubmitAutoTypeMatch(s, match) ==
    [QDialogDone(s, "Accepted") EXCEPT !.m_accepted = TRUE,
                                       !.nActivated = @ + 1,
                                       !.delivered = match]

ActivateCurrentMatch(s) == SubmitAutoTypeMatch(s, CurrentMatch(s))

MoveSelectionUp(s) ==
    IF s.sel # 0 /\ s.sel - 1 >= 1 THEN ViewSetCurrent(s, s.sel - 1) ELSE s

\* mutant: past the last row the selection wraps to the first
MoveSelectionDown_Wrap(s) ==
    IF s.sel = 0 THEN s
    ELSE ViewSetCurrent(s, IF s.sel + 1 <= Len(s.displayed) THEN s.sel + 1 ELSE 1)

MoveSelectionDown(s) ==
    IF s.sel # 0 /\ s.sel + 1 <= Len(s.displayed) THEN ViewSetCurrent(s, s.sel + 1) ELSE s

\* mutant: Escape rejects whatever the query text
EscapeHandler_AlwaysReject(s) == Reject(s)

EscapeHandler(s) ==
    IF s.searchText = << >> THEN Reject(s) ELSE SearchSetText(s, << >>)

Placeholder == <<"{USERNAME}", "{PASSWORD}", "{TOTP}">>

\* mutant: the type lambdas submit the selected match with its own sequence
TypeActionHandler_KeepTemplate(s, i) == SubmitAutoTypeMatch(s, CurrentMatch(s))

TypeActionHandler(s, i) ==
    SubmitAutoTypeMatch(s, <<CurrentMatch(s)[1], Placeholder[i]>>)

FieldOf(entry, i) ==
    IF i = 1 THEN Username[entry] ELSE IF i = 2 THEN Password[entry] ELSE Totp[entry]

\* mutant: the copy lambdas submit the match instead of rejecting
CopyActionOutcomes_Accept(s, i) ==
    {SubmitAutoTypeMatch([s EXCEPT !.clipboard = FieldOf(CurrentMatch(s)[1], i)],
                         CurrentMatch(s))}

\* the copy lambdas dereference currentMatch().first without a check: on a null
\* entry the behaviour is undefined, a crash or a read of garbage
CopyActionOutcomes(s, i) ==
    IF CurrentMatch(s)[1] # NoEntry
    THEN {Reject([s EXCEPT !.clipboard = FieldOf(CurrentMatch(s)[1], i)])}
    ELSE {[s EXCEPT !.phase = "crashed", !.menuOpen = FALSE],
          Reject([s EXCEPT !.clipboard = GarbageText])}

CloseEventHandler(s) ==
    LET s1 == [s EXCEPT !.nClose = @ + 1,
                        !.nRejected = IF ~s.m_accepted THEN @ + 1 ELSE @]
    IN IF s1.phase = "open" THEN Reject(s1) ELSE s1

\* ------------------------------------------------------------ state machine
MaxSince == SearchInterval \div TickMs + 1

Event(s, name, arg) == [s EXCEPT !.ev = [name |-> name, arg |-> arg]]

\* the checked state of the two radio buttons the form starts with is not fixed here
Init ==
    /\ phase = "constructed"
    /\ result = "none"
    /\ m_accepted = FALSE
    /\ m_matches = << >>
    /\ m_dbs = << >>
    /\ \E c \in {"none", "filter", "search"} :
           /\ filterChecked = (c = "filter")
           /\ searchChecked = (c = "search")
    /\ searchText = << >>
    /\ viewList = << >>
    /\ displayed = << >>
    /\ sel = 0
    /\ timerActive = FALSE
    /\ timerLeft = 0
    /\ buttonEnabled = TRUE
    /\ actions = <<TRUE, TRUE, TRUE, TRUE, TRUE, TRUE>>
    /\ menuOpen = FALSE
    /\ clipboard = ""
    /\ nActivated = 0
    /\ delivered = NullMatch
    /\ nRejected = 0
    /\ nClose = 0
    /\ burst = 0
    /\ sinceChange = 0
    /\ lastDispatch = [mode |-> "none", text |-> << >>, queried |-> FALSE]
    /\ ev = [name |-> "init", arg |-> 0]

\* the user can reach the dialog's widgets: it is shown and no popup menu grabs input
Interactive == phase = "open" /\ ~menuOpen

SetMatches ==
    /\ phase = "constructed"
    /\ \E matches \in InitialMatchLists, dbs \in DbLists :
           Apply(Event([SetMatchesHandler(St, matches, dbs) EXCEPT !.phase = "open"],
                       "setMatches", 0))

TextChanged ==
    /\ Interactive
    /\ burst < MaxBurst
    /\ \E t \in Texts \ {searchText} : Apply(Event(SearchSetText(St, t), "textChanged", 0))

Tick ==
    /\ phase \in {"open", "closed"}
    /\ timerActive
    /\ timerLeft > 0
    /\ Apply(Event([St EXCEPT !.timerLeft = IF @ > TickMs THEN @ - TickMs ELSE 0,
                              !.sinceChange = Min(@ + 1, MaxSince)], "tick", 0))

Timeout ==
    /\ phase \in {"open", "closed"}
    /\ timerActive
    /\ timerLeft = 0
    /\ Apply(Event(TimerFire(St), "timeout", 0))

EscapeKey ==
    /\ Interactive
    /\ searchText = << >> \/ burst < MaxBurst
    /\ Apply(Event(EscapeHandler(St), "escape", 0))

ReturnPressed ==
    /\ Interactive
    /\ Apply(Event(ActivateCurrentMatch(St), "returnPressed", 0))

ActionButtonClicked ==
    /\ Interactive
    /\ buttonEnabled
    /\ Apply(Event(ActivateCurrentMatch(St), "actionClicked", 0))

ViewMatchActivated ==
    /\ Interactive
    /\ \E row \in 1..Len(displayed) :
           Apply(Event(SubmitAutoTypeMatch(ViewSetCurrent(St, row), displayed[row]),
                       "viewActivated", row))

CancelClicked ==
    /\ Interactive
    /\ Apply(Event(Reject(St), "cancel", 0))

CloseEvent ==
    /\ Interactive \/ phase = "closed"
    /\ nClose < MaxCloseEvents
    /\ Apply(Event(CloseEventHandler(St), "closeEvent", 0))

FilterRadioClicked ==
    /\ Interactive
    /\ ~filterChecked
    /\ Apply(Event(FilterRadioSetChecked(St), "filterToggled", 0))

SearchRadioClicked ==
    /\ Interactive
    /\ ~searchChecked
    /\ Apply(Event(SearchRadioSetChecked(St), "searchToggled", 0))

KeyUp ==
    /\ Interactive
    /\ Apply(Event(MoveSelectionUp(St), "keyUp", 0))

KeyDown ==
    /\ Interactive
    /\ Apply(Event(MoveSelectionDown(St), "keyDown", 0))

SelectRow ==
    /\ Interactive
    /\ \E row \in 1..Len(displayed) :
           /\ row # sel
           /\ Apply(Event(ViewSetCurrent(St, row), "selectRow", 0))

ContextMenuRequested ==
    /\ Interactive
    /\ CurrentMatch(St)[1] # NoEntry
    /\ Apply(Event([St EXCEPT !.menuOpen = TRUE], "contextMenu", 0))

ActionButtonMenu ==
    /\ Interactive
    /\ buttonEnabled
    /\ Apply(Event([St EXCEPT !.menuOpen = TRUE], "buttonMenu", 0))

MenuDismissed ==
    /\ phase = "open"
    /\ menuOpen
    /\ Apply(Event([St EXCEPT !.menuOpen = FALSE], "menuDismissed", 0))

TypeActionTriggered ==
    /\ phase = "open"
    /\ menuOpen
    /\ \E i \in 1..3 :
           /\ actions[i]
           /\ Apply(Event(TypeActionHandler(St, i), "type", i))

CopyActionTriggered ==
    /\ phase = "open"
    /\ menuOpen
    /\ \E i \in 1..3 :
           /\ actions[3 + i]
           /\ \E s \in CopyActionOutcomes(St, i) : Apply(Event(s, "copy", i))

\* WA_DeleteOnClose: the closed dialog, its timer included, is deleted later
Destroy ==
    /\ phase = "closed"
    /\ Apply(Event([St EXCEPT !.phase = "destroyed", !.timerActive = FALSE,
                              !.timerLeft = 0], "destroyed", 0))

Next ==
    \/ SetMatches
    \/ TextChanged
    \/ Tick
    \/ Timeout
    \/ EscapeKey
    \/ ReturnPressed
    \/ ActionButtonClicked
    \/ ViewMatchActivated
    \/ CancelClicked
    \/ CloseEvent
    \/ FilterRadioClicked
    \/ SearchRadioClicked
    \/ KeyUp
    \/ KeyDown
    \/ SelectRow
    \/ ContextMenuRequested
    \/ ActionButtonMenu
    \/ MenuDismissed
    \/ TypeActionTriggered
    \/ CopyActionTriggered
    \/ Destroy

Spec == Init /\ [][Next]_vars

\* the session state of the specification's state machine
Session ==
    IF phase \in {"constructed", "open"} THEN "Open"
    ELSE IF phase = "crashed" THEN "Crashed"
    ELSE IF result = "Accepted" THEN "Accepted" ELSE "Cancelled"

\* ------------------------------------------------------------ properties
Activations == {"returnPressed", "actionClicked", "type"}

Contains(text, m) == IsSubstring(text, Title[m[1]])

\* C1: activating (Enter in the search field, the action button, a type-action) while
\* the view has no current match is a no-op: the dialog stays open, matchActivated is
\* not emitted, and no match with a null entry is delivered.
C1_ActivateWithoutSelectionIsNoOp ==
    [][(phase = "open" /\ sel = 0 /\ ev'.name \in Activations)
        => /\ phase' = "open"
           /\ nActivated' = nActivated
           /\ delivered'[1] # NoEntry \/ nActivated' = 0]_vars

\* C2: matchActivated is emitted exactly once in a session that closes as Accepted and
\* never in a session that is open or closes as Cancelled.
C2_MatchActivatedOnceIffAccepted ==
    /\ Session = "Accepted" => nActivated = 1
    /\ Session # "Accepted" => nActivated = 0

C2_Witness ==
    /\ Session = "Accepted"
    /\ nActivated = 1
    /\ delivered[1] # NoEntry
    /\ ev.name = "closeEvent"

\* C3: rejected() is emitted exactly once in a session that closes as Cancelled and
\* never in an open or accepted session; a window close without acceptance emits it
\* once, a close event after acceptance emits none.
C3_RejectedOnceIffCancelled ==
    /\ Session = "Cancelled" => nRejected = 1
    /\ Session \in {"Open", "Accepted"} => nRejected = 0

\* C4: a copy-action on a selected match puts exactly the selected entry's field
\* (username, password, TOTP) on the clipboard and closes the session as Cancelled;
\* it does not accept and emits no matchActivated.
C4_CopyDeliversFieldAndCancels ==
    [][(ev'.name = "copy" /\ sel # 0)
        => LET entry == displayed[sel][1]
           IN /\ ev'.arg = 1 => clipboard' = Username[entry]
              /\ ev'.arg = 2 => clipboard' = Password[entry]
              /\ ev'.arg = 3 => clipboard' = Totp[entry]
              /\ phase' = "closed"
              /\ result' = "Rejected"
              /\ ~m_accepted'
              /\ nActivated' = 0]_vars

C4_Witness ==
    /\ ev = [name |-> "copy", arg |-> 2]
    /\ clipboard = "pw2"
    /\ Session = "Cancelled"
    /\ nActivated = 0

\* C5: Escape with a non-empty query clears the query, leaves the session open and
\* arms the timer whose dispatch recomputes the displayed set for the empty text;
\* Escape with an empty query closes the session as Cancelled.
C5_Escape ==
    [][/\ (ev'.name = "escape" /\ searchText # << >>)
            => /\ searchText' = << >>
               /\ phase' = "open"
               /\ result' = "none"
               /\ timerActive'
               /\ timerLeft' = SearchInterval
       /\ (ev'.name = "escape" /\ searchText = << >>)
            => /\ phase' = "closed"
               /\ result' = "Rejected"
       /\ (ev'.name = "timeout" /\ searchText = << >>)
            => /\ lastDispatch'.text = << >>
               /\ displayed' = IF filterChecked THEN m_matches ELSE << >>]_vars

C5_Witness ==
    /\ ev.name = "escape"
    /\ phase = "open"
    /\ searchText = << >>
    /\ timerActive
    /\ displayed # m_matches
    /\ filterChecked

\* C6: a burst of text changes, each arriving before the pending timer fired, yields
\* exactly one timer-driven dispatch, a full interval after the last change and with
\* the text of the last change; every text change restarts the interval.
C6_Debounce ==
    [][/\ searchText' # searchText
            => /\ timerActive'
               /\ timerLeft' = SearchInterval
               /\ burst' = burst + 1
       /\ ev'.name = "timeout"
            => /\ burst >= 1
               /\ burst' = 0
               /\ ~timerActive'
               /\ sinceChange * TickMs >= SearchInterval
               /\ lastDispatch'.text = searchText
               /\ searchText' = searchText
       /\ burst = 0 => ~timerActive]_vars

C6_Witness ==
    /\ ev.name = "timeout"
    /\ burst = 0
    /\ ~timerActive
    /\ lastDispatch.text = <<"b">>
    /\ searchText = <<"b">>

\* C7: after setMatches the mode is Filter if the initial candidate set is non-empty
\* and Search if it is empty.
C7_InitialMode ==
    ev.name = "setMatches"
        => /\ m_matches # << >> => filterChecked /\ ~searchChecked
           /\ m_matches = << >> => searchChecked /\ ~filterChecked

C7_Witness ==
    /\ ev.name = "setMatches"
    /\ m_matches = << >>
    /\ searchChecked
    /\ lastDispatch.mode = "Search"

Dispatches == {"timeout", "filterToggled", "searchToggled"}

\* C8: a Filter dispatch with empty query text makes the displayed set equal to the
\* original candidate set, in the same order, whatever was displayed before; the
\* original set is never modified after setMatches.
C8_FilterEmptyRestoresOriginal ==
    [][/\ (ev'.name \in Dispatches /\ filterChecked' /\ searchText' = << >>)
            => displayed' = m_matches'
       /\ phase # "constructed" => m_matches' = m_matches]_vars

C8_Witness ==
    /\ ev.name = "filterToggled"
    /\ searchText = << >>
    /\ lastDispatch.mode = "Filter"
    /\ displayed = m_matches
    /\ Len(m_matches) = 2

\* C9: a mode toggle recomputes at once, without the timer: switching to Filter shows
\* the original set filtered by the current text; switching to Search dispatches a
\* search with the current text, and that dispatch already runs in Search mode.
C9_ToggleDispatchesImmediately ==
    [][/\ ev'.name = "filterToggled"
            => /\ lastDispatch' = [mode |-> "Filter", text |-> searchText, queried |-> FALSE]
               /\ displayed' = SelectSeq(m_matches, LAMBDA m : Contains(searchText, m))
       /\ ev'.name = "searchToggled"
            => /\ lastDispatch'.mode = "Search"
               /\ lastDispatch'.text = searchText
               /\ displayed' = IF searchText = << >> THEN << >>
                               ELSE Collect(searchText, m_dbs)
       /\ ev'.name \in {"filterToggled", "searchToggled"}
            => /\ timerActive' = timerActive
               /\ timerLeft' = timerLeft
               /\ searchText' = searchText]_vars

C9_Witness ==
    /\ ev.name = "searchToggled"
    /\ lastDispatch = [mode |-> "Search", text |-> <<"a">>, queried |-> TRUE]
    /\ displayed # << >>
    /\ displayed # m_matches
    /\ timerActive

\* C10: a dispatch in Search mode shows nothing when the query text is empty, without
\* querying a store, and otherwise shows exactly the matches collected from all the
\* stores for the text, replacing what was displayed.
C10_SearchDispatch ==
    [][(ev'.name \in Dispatches /\ ~filterChecked')
        => /\ searchText' = << >>
                => displayed' = << >> /\ ~lastDispatch'.queried
           /\ searchText' # << >>
                => displayed' = Collect(searchText', m_dbs') /\ lastDispatch'.queried
           /\ viewList' = displayed'
           /\ lastDispatch'.mode = "Search"]_vars

C10_Witness ==
    /\ ev.name = "timeout"
    /\ lastDispatch = [mode |-> "Search", text |-> << >>, queried |-> FALSE]
    /\ displayed = << >>
    /\ m_matches # << >>

\* C11: the candidate set one collection pass of performSearch produces holds no two
\* matches with the same entry and the same sequence, whatever the list of stores.
C11_CollectedHasNoDuplicates ==
    lastDispatch.queried
        => \A i, j \in 1..Len(viewList) : viewList[i] = viewList[j] => i = j

\* the sequences of an entry in the order the collector meets them
SequencesOf(e) == <<EffectiveSequence[e]>> \o Associations[e]

FirstSeen(q, i) == q[i] # "" /\ \A j \in 1..(i - 1) : q[j] # q[i]

RECURSIVE Kept(_, _)
Kept(q, i) ==
    IF i > Len(q) THEN << >>
    ELSE (IF FirstSeen(q, i) THEN <<q[i]>> ELSE << >>) \o Kept(q, i + 1)

ExpectedFor(e) ==
    LET kept == Kept(SequencesOf(e), 1) IN [k \in 1..Len(kept) |-> <<e, kept[k]>>]

RECURSIVE Flatten(_)
Flatten(qq) == IF qq = << >> THEN << >> ELSE Head(qq) \o Flatten(Tail(qq))

ExpectedCollect(text, dbs) ==
    LET found == Flatten([i \in 1..Len(dbs) |-> EntrySearch(text, dbs[i])])
    IN Flatten([k \in 1..Len(found) |-> ExpectedFor(found[k])])

\* C12: for every entry the search returns the collector emits the default sequence
\* first if it is non-empty, then every associated sequence, in stored order, that is
\* non-empty and not yet emitted for the entry; an entry without a non-empty sequence
\* contributes nothing.  Default "{USERNAME}{ENTER}" with associations
\* ["{USERNAME}{ENTER}", "{TOTP}"] yields exactly two matches, the default first.
C12_CollectorEmission ==
    lastDispatch.queried
        => /\ viewList = ExpectedCollect(lastDispatch.text, m_dbs)
           /\ (m_dbs = <<Db1, Db2>> /\ lastDispatch.text = <<"a">>)
                => SelectSeq(viewList, LAMBDA m : m[1] = "e1")
                       = <<<<"e1", "{USERNAME}{ENTER}">>, <<"e1", "{TOTP}">>>>
           /\ \A i \in 1..Len(viewList) : viewList[i][1] # "e3" /\ viewList[i][2] # ""

C12_Witness ==
    /\ lastDispatch = [mode |-> "Search", text |-> <<"a">>, queried |-> TRUE]
    /\ displayed = <<<<"e1", "{USERNAME}{ENTER}">>, <<"e1", "{TOTP}">>,
                     <<"e2", "{PASSWORD}">>>>
    /\ sel = 1

\* C13: moveSelectionUp/moveSelectionDown keep the selection none or inside the
\* displayed set; a call moves it by exactly one row when the neighbour exists and
\* changes nothing at the first row (up), at the last row (down), on an empty set or
\* without a current row: there is no wrap-around.
C13_Navigation ==
    [][/\ ev'.name = "keyUp" => sel' = IF sel >= 2 THEN sel - 1 ELSE sel
       /\ ev'.name = "keyDown"
            => sel' = IF sel >= 1 /\ sel < Len(displayed) THEN sel + 1 ELSE sel
       /\ ev'.name \in {"keyUp", "keyDown"} => displayed' = displayed
       /\ sel' \in 0..Len(displayed')
       /\ displayed' # << >> => sel' >= 1]_vars

C13_Witness ==
    /\ ev.name = "keyDown"
    /\ Len(displayed) = 3
    /\ sel = 3
    /\ phase = "open"

\* C14: while the selection is a match, the six actions are enabled by the fields of
\* the selected entry: type/copy username iff it has a username, type/copy password
\* iff it has a password, type/copy OTP iff it has TOTP.
C14_ActionsFollowFields ==
    (phase # "constructed" /\ sel # 0)
        => LET entry == displayed[sel][1]
           IN /\ actions[1] = (Username[entry] # "") /\ actions[4] = actions[1]
              /\ actions[2] = (Password[entry] # "") /\ actions[5] = actions[2]
              /\ actions[3] = HasTotp[entry] /\ actions[6] = actions[3]
              /\ buttonEnabled

C14_Witness ==
    /\ phase = "open"
    /\ m_matches = << >>
    /\ lastDispatch = [mode |-> "Search", text |-> <<"a">>, queried |-> TRUE]
    /\ sel # 0
    /\ displayed[sel][1] = "e1"
    /\ actions = <<TRUE, FALSE, FALSE, TRUE, FALSE, FALSE>>

\* C15: whenever an open session has no current selection (at its start or after a
\* dispatch that displays nothing), all six type/copy actions are disabled.
C15_NoSelectionDisablesActions ==
    (phase = "open" /\ sel = 0) => \A i \in 1..6 : ~actions[i]

\* C16: a type action on a selected match closes the session as Accepted and emits
\* matchActivated once, carrying the selected entry and the literal placeholder
\* {USERNAME}, {PASSWORD} or {TOTP} of the action in place of the match's own
\* sequence; the displayed set is not modified.
C16_TypeAction ==
    [][(ev'.name = "type" /\ sel # 0)
        => /\ delivered' = <<displayed[sel][1],
                             IF ev'.arg = 1 THEN "{USERNAME}"
                             ELSE IF ev'.arg = 2 THEN "{PASSWORD}" ELSE "{TOTP}">>
           /\ phase' = "closed"
           /\ result' = "Accepted"
           /\ m_accepted'
           /\ nActivated' = nActivated + 1
           /\ displayed' = displayed
           /\ sel' = sel]_vars

C16_Witness ==
    /\ ev = [name |-> "type", arg |-> 3]
    /\ sel # 0
    /\ displayed[sel] = <<"e2", "{PASSWORD}">>
    /\ delivered = <<"e2", "{TOTP}">>
    /\ Session = "Accepted"

RECURSIVE IsSubsequence(_, _)
IsSubsequence(sub, seq) ==
    IF sub = << >> THEN TRUE
    ELSE IF seq = << >> THEN FALSE
    ELSE IF Head(sub) = Head(seq) THEN IsSubsequence(Tail(sub), Tail(seq))
    ELSE IsSubsequence(sub, Tail(seq))

\* C17: while an open session is in Filter mode the displayed set is an
\* order-preserving subsequence of the original candidate set: the view holds the
\* original set, not the result of an earlier collection, and a dispatch in Filter
\* mode does not query the stores.
C17_FilterShowsOriginalOnly ==
    /\ (phase = "open" /\ filterChecked)
            => /\ IsSubsequence(displayed, m_matches)
               /\ viewList = m_matches
    /\ lastDispatch.mode = "Filter" => ~lastDispatch.queried

C17_Witness ==
    /\ phase = "open"
    /\ filterChecked
    /\ ev.name = "filterToggled"
    /\ lastDispatch = [mode |-> "Filter", text |-> <<"b">>, queried |-> FALSE]
    /\ Len(m_matches) = 2
    /\ Len(displayed) = 1

\* C18: closing the session cancels the debounce timer: no dispatch runs once the
\* session has left the open state.
C18_NoDispatchAfterClose ==
    [][ev'.name \in Dispatches => phase = "open"]_vars

\* C19: every dispatch, from the timer or from a mode toggle, in either mode, puts the
\* selection on the first row of the new displayed set, or on none when the set is
\* empty, and updateActionMenu runs for that selection.
C19_DispatchResetsSelection ==
    [][ev'.name \in Dispatches
        => /\ sel' = IF displayed' = << >> THEN 0 ELSE 1
           /\ buttonEnabled' = (displayed' # << >>)
           /\ displayed' # << >>
                => LET entry == displayed'[1][1]
                   IN actions' = <<Username[entry] # "", Password[entry] # "", HasTotp[entry],
                                   Username[entry] # "", Password[entry] # "", HasTotp[entry]>>]_vars

C19_Witness ==
    /\ ev.name = "timeout"
    /\ lastDispatch.mode = "Filter"
    /\ Len(displayed) = 2
    /\ sel = 1
    /\ displayed[1][1] = "e2"
    /\ actions = <<FALSE, TRUE, TRUE, FALSE, TRUE, TRUE>>

\* C20: a type or copy action handler runs only while the current selection is a
\* match, under every interleaving of the menu, the timer and the mode toggles.
C20_ActionsNeedSelection ==
    [][ev'.name \in {"type", "copy"} => sel # 0]_vars

====
